---- MODULE Spec2Model ----
(***************************************************************************)
(* State-machine model of src/models.py: the Model class that drives a     *)
(* backbone and a decoder transformer stack (setup_caches, reset_caches,   *)
(* generate_frame, generate_frames_batch/forward) and the helpers it uses  *)
(* (_create_causal_mask, _index_causal_mask, sample_topk, _embed_tokens,   *)
(* _embed_audio).                                                          *)
(*                                                                         *)
(* Tensors are modelled by their shape and by integer contents.  All batch *)
(* rows of one call carry the same token frame and the same positions; the *)
(* sampled tokens differ per row.  An argument of a call is drawn at the   *)
(* step that first reads it (arguments are immutable and independent).     *)
(* The transformer stacks are external: their forward may raise, and on    *)
(* success appends the stepped positions to the stack's KV cache, which    *)
(* holds at most the stack's max sequence length; a cache is modelled by   *)
(* the number of positions it holds.                                       *)
(***************************************************************************)
EXTENDS Integers, Sequences, FiniteSets, TLC

\* ---------------------------------------------------------------- bounds
MaxCodebooks == 3
MaxSeqLen == 3
MaxBatch == 1
AudioVocabSize == 2
TextVocabSize == 2
MaxFrames == 2

VARIABLES
    audio_num_codebooks,   \* ModelArgs.audio_num_codebooks
    caches_enabled,        \* backbone.caches_are_enabled()
    backbone_causal_mask,  \* registered buffer, <<>> before setup_caches
    decoder_causal_mask,   \* registered buffer, <<>> before setup_caches
    backbone_cache,        \* number of positions the backbone KV cache holds
    decoder_cache,         \* number of positions the decoder KV cache holds
    pc,                    \* position of the running call, "idle" between calls
    op,                    \* the operation running or last run
    batch_size,            \* b of the running call
    input_pos,             \* input_pos argument of the running or last backbone step
    curr_backbone_mask,    \* the indexed backbone mask of the running step
    tokens,                \* token frame handed to the embedding fusion
    tokens_mask,           \* frame mask handed to the embedding fusion
    h,                     \* fused embedding of that frame
    logits,                \* per row, the logits handed to sample_topk
    topk, temperature,     \* sampling arguments of the running call
    c0_sample,             \* codebook-0 sample, one token per row
    curr_sample,           \* per row, the tokens sampled so far in the frame
    curr_pos,              \* decoder positions / batch driver positions
    i,                     \* loop index of the running call
    num_frames,            \* generate_frames_batch argument
    curr_tokens_dims,      \* shape of generate_frames_batch's curr_tokens
    batch_samples,         \* generate_frames_batch's accepted samples
    backbone_calls,        \* backbone forwards started in the running/last call
    decoder_calls,         \* decoder forwards started in the running/last call
    decoder_resets,        \* decoder.reset_caches() calls in the running/last call
    returned,              \* "nothing" | "value" | "None" | "raised"
    result,                \* the value returned (<<>> unless returned = "value")
    error                  \* the exception raised or absorbed, "none" otherwise

vars == <<audio_num_codebooks, caches_enabled, backbone_causal_mask,
          decoder_causal_mask, backbone_cache, decoder_cache, pc, op, batch_size,
          input_pos, curr_backbone_mask, tokens, tokens_mask, h, logits, topk,
          temperature,
          c0_sample, curr_sample, curr_pos, i, num_frames, curr_tokens_dims,
          batch_samples, backbone_calls, decoder_calls, decoder_resets,
          returned, result, error>>

config == <<audio_num_codebooks>>
stacks == <<caches_enabled, backbone_causal_mask, decoder_causal_mask>>
caches == <<backbone_cache, decoder_cache>>
fusion == <<tokens, tokens_mask, h, logits>>
counters == <<backbone_calls, decoder_calls, decoder_resets>>

\* ---------------------------------------------------------------- helpers
Range(s) == {s[x] : x \in DOMAIN s}

Last(s) == s[Len(s)]

RECURSIVE SumSeq(_)
SumSeq(s) == IF s = <<>> THEN 0 ELSE s[1] + SumSeq(Tail(s))

\* torch.ones(seq_len, seq_len, dtype=bool)
Ones(seq_len) == [r \in 1..seq_len |-> [c \in 1..seq_len |-> TRUE]]

\* torch.tril: keeps the entries on and below the diagonal, clears the rest
StrictTril(m) == [r \in 1..Len(m) |-> [c \in 1..Len(m[r]) |-> m[r][c] /\ c < r]]

Tril(m) == [r \in 1..Len(m) |-> [c \in 1..Len(m[r]) |-> m[r][c] /\ c <= r]]

\* _create_causal_mask(seq_len): row r (1-based) is position r-1
create_causal_mask(seq_len) == Tril(Ones(seq_len))

\* Python/torch indexing of a dimension of size n: negative indices wrap
PyIndex(p, n) == IF p < 0 THEN p + n ELSE p

\* whether mask[input_pos, :] raises IndexError
IndexInRange(mask, pos) ==
    \A q \in 1..Len(pos) : pos[q] >= -Len(mask) /\ pos[q] < Len(mask)

\* _index_causal_mask(mask, input_pos) = mask[input_pos, :] for one batch row
ShiftedIndexCausalMask(mask, pos) ==
    [q \in 1..Len(pos) |-> mask[q]]

index_causal_mask(mask, pos) ==
    [q \in 1..Len(pos) |-> mask[PyIndex(pos[q], Len(mask)) + 1]]

\* ---------------------------------------------------------------- exceptions
NotEnabled == "AssertionError: backbone caches are not enabled"
PosOutOfRange == "IndexError: position out of range of the causal mask"
StackFailure == "RuntimeError: transformer stack forward failed"
CacheFull == "ValueError: the KV cache has no room for the positions"
TopkFailure == "RuntimeError: selected index k out of range"
EmptyTopk == "IndexError: index -1 is out of bounds for dimension with size 0"
CatFailure == "RuntimeError: sizes of tensors must match"
CachesNotSetup == "RuntimeError: key value caches are not setup"
RankError == "IndexError: too many indices for tensor"
TokenOutOfRange == "IndexError: index out of range in self"
ShapeMismatch == "RuntimeError: the size of tensors must match"
HeadIndexError == "IndexError: index out of bounds for dimension 0 of audio_head"

\* ---------------------------------------------------------------- embedding
\* nn.Embedding weights (embedding width 1): one fixed non-zero table each
TextWeight(t) == t + 1

AudioWeight(idx) == idx + 1

\* size of the single audio table: audio_vocab_size * audio_num_codebooks
AudioTableSize(N) == AudioVocabSize * N

\* _embed_audio(codebook, tokens): index into the audio table
UnshiftedIndex(codebook, token) == token

embed_audio_index(codebook, token) == token + codebook * AudioVocabSize

\* _embed_audio on one sampled token per row: "ok" or the exception of the
\* table lookup
embed_audio_error(codebook, sample, N) ==
    IF \E r \in DOMAIN sample :
         embed_audio_index(codebook, sample[r]) \notin 0..(AudioTableSize(N) - 1)
      THEN TokenOutOfRange
    ELSE "ok"

\* audio_head: one weight slice per codebook 1..N-1 (line 111); the loop
\* reads slice i - 1 (line 238)
AudioHeadSize(N) == N - 1

audio_head_index(codebook) == codebook - 1

audio_head_error(codebook, N) ==
    IF /\ audio_head_index(codebook) >= -AudioHeadSize(N)
       /\ audio_head_index(codebook) < AudioHeadSize(N)
      THEN "ok"
    ELSE HeadIndexError

\* tokens[:, :, :-1] + audio_vocab_size * arange(N): the audio slot read for
\* codebook c (0-based); a single audio slot is broadcast over the codebooks
AudioSlot(frame, c) == IF Len(frame) - 1 = 1 THEN frame[1] ELSE frame[c + 1]

\* _embed_tokens on a tensor of shape dims: "ok" or the exception it raises.
\* frame is the tokens of one (row, step), dims the shape of the whole tensor.
embed_tokens_error(dims, frame, N) ==
    IF Len(dims) # 3 THEN RankError
    ELSE IF ~(Last(frame) \in 0..(TextVocabSize - 1)) THEN TokenOutOfRange
    ELSE IF ~(Last(dims) - 1 = N \/ Last(dims) - 1 = 1 \/ N = 1) THEN ShapeMismatch
    ELSE IF Last(dims) - 1 = 0 THEN ShapeMismatch
    ELSE IF \E c \in 0..(IF N = 1 THEN Last(dims) - 2 ELSE N - 1) :
              ~(embed_audio_index(IF N = 1 THEN 0 ELSE c,
                                  IF N = 1 THEN frame[c + 1] ELSE AudioSlot(frame, c))
                  \in 0..(AudioTableSize(N) - 1))
         THEN TokenOutOfRange
    ELSE IF ~(Last(dims) - 1 = N \/ Last(dims) - 1 = 1) THEN ShapeMismatch
    ELSE "ok"

\* _embed_tokens: the N audio embeddings followed by the text embedding
embed_tokens(frame, N) ==
    [slot \in 1..(N + 1) |->
        IF slot = N + 1 THEN TextWeight(Last(frame))
        ELSE AudioWeight(embed_audio_index(slot - 1, AudioSlot(frame, slot - 1)))]

\* embeds * tokens_mask.unsqueeze(-1): the shapes must broadcast
mask_mul_ok(mask, N) == Len(mask) = N + 1 \/ Len(mask) = 1

MaskAt(mask, slot) == IF Len(mask) = 1 THEN mask[1] ELSE mask[slot]

\* masked_embeds = embeds * tokens_mask.unsqueeze(-1)
UnmaskedEmbeds(embeds, mask) == embeds

masked_embeds(embeds, mask) ==
    [slot \in 1..Len(embeds) |-> IF MaskAt(mask, slot) THEN embeds[slot] ELSE 0]

\* h = masked_embeds.sum(dim=2) for one (row, step)
fuse(frame, mask, N) == SumSeq(masked_embeds(embed_tokens(frame, N), mask))

\* ---------------------------------------------------------------- sampling
\* the sampling arguments a caller can pass
TopkChoices == 0..(AudioVocabSize + 1)

TemperatureChoices == {-1, 0, 1}

\* logits of one row: one value per token of the audio vocabulary
LogitValues == 0..1

LogitRows == [0..(AudioVocabSize - 1) -> LogitValues]

\* logits / temperature for temperature in {-1, 1}
Scale(row, temp) == [x \in DOMAIN row |-> row[x] * temp]

\* torch.topk(logits, k)[0][..., -1]: the k-th largest value of the row
KthLargest(row, k) ==
    CHOOSE v \in Range(row) :
        /\ Cardinality({x \in DOMAIN row : row[x] > v}) < k
        /\ Cardinality({x \in DOMAIN row : row[x] >= v}) >= k

\* the indices left unmasked: not (logits < k-th largest)
MaskedOut(row, k) == {x \in DOMAIN row : row[x] < KthLargest(row, k)}

Kept(row, k) == {x \in DOMAIN row : ~(row[x] < KthLargest(row, k))}

\* torch.topk raises for k > size and for k < 0; k = 0 yields an empty
\* result whose [..., -1] raises
topk_ok(k) == k >= 1 /\ k <= AudioVocabSize

\* the exception sample_topk raises when ~topk_ok(k)
topk_error(k) == IF k = 0 THEN EmptyTopk ELSE TopkFailure

\* sample_topk for one row: the tokens the draw can return. With
\* temperature = 0 the scaled logits are inf/nan and so are the
\* probabilities: argmax over them is any index.
sample_topk(row, k, temp) ==
    IF temp = 0 THEN DOMAIN row ELSE Kept(Scale(row, temp), k)

\* one sample per batch row
Samples(b, rows, k, temp) ==
    {s \in [1..b -> 0..(AudioVocabSize - 1)] :
        \A r \in 1..b : s[r] \in sample_topk(rows[r], k, temp)}

\* the samples sample_topk can return for some logits of the stack
SampleSets ==
    [b \in 1..MaxBatch, k \in 1..AudioVocabSize, temp \in TemperatureChoices |->
        UNION {Samples(b, rows, k, temp) : rows \in [1..b -> LogitRows]}]


\* ---------------------------------------------------------------- inputs
\* positions of one call: strictly increasing, possibly non-contiguous, and
\* possibly beyond the last row of the backbone mask
PosSeqs ==
    {p \in UNION {[1..n -> 0..MaxSeqLen] : n \in 1..MaxSeqLen} :
        \A q \in 1..(Len(p) - 1) : p[q] < p[q + 1]}

TokenValues == 0..(IF AudioVocabSize > TextVocabSize THEN AudioVocabSize ELSE TextVocabSize)

SlotCounts == 1..(MaxCodebooks + 1)

\* ---------------------------------------------------------------- initial state
NoLocals ==
    /\ batch_size' = 0
    /\ input_pos' = <<>>
    /\ curr_backbone_mask' = <<>>
    /\ topk' = 0
    /\ temperature' = 0
    /\ curr_sample' = <<>>
    /\ curr_pos' = <<>>
    /\ i' = 0
    /\ num_frames' = 0
    /\ curr_tokens_dims' = <<>>

Init ==
    /\ audio_num_codebooks \in 1..MaxCodebooks
    /\ caches_enabled = FALSE
    /\ backbone_causal_mask = <<>>
    /\ decoder_causal_mask = <<>>
    /\ backbone_cache = 0
    /\ decoder_cache = 0
    /\ pc = "idle"
    /\ op = "none"
    /\ batch_size = 0
    /\ input_pos = <<>>
    /\ curr_backbone_mask = <<>>
    /\ tokens = <<>>
    /\ tokens_mask = <<>>
    /\ h = 0
    /\ logits = <<>>
    /\ topk = 0
    /\ temperature = 0
    /\ c0_sample = <<>>
    /\ curr_sample = <<>>
    /\ curr_pos = <<>>
    /\ i = 0
    /\ num_frames = 0
    /\ curr_tokens_dims = <<>>
    /\ batch_samples = <<>>
    /\ backbone_calls = 0
    /\ decoder_calls = 0
    /\ decoder_resets = 0
    /\ returned = "nothing"
    /\ result = <<>>
    /\ error = "none"

\* a call starts: the previous call's outcome and history are dropped
Begin(name) ==
    /\ pc = "idle"
    /\ op' = name
    /\ c0_sample' = <<>>
    /\ batch_samples' = <<>>
    /\ backbone_calls' = 0
    /\ decoder_calls' = 0
    /\ decoder_resets' = 0

\* the running call raises e to its caller
Swallow(e) ==
    /\ pc' = "idle"
    /\ returned' = "None"
    /\ result' = <<>>
    /\ error' = e
    /\ NoLocals

Raise(e) ==
    /\ pc' = "idle"
    /\ returned' = "raised"
    /\ result' = <<>>
    /\ error' = e
    /\ NoLocals

\* the running call returns None
ReturnNone(e) ==
    /\ pc' = "idle"
    /\ returned' = "None"
    /\ result' = <<>>
    /\ error' = e
    /\ NoLocals

\* the running call goes on at position p, nothing returned or raised yet
Goto(p) ==
    /\ pc' = p
    /\ returned' = "nothing"
    /\ result' = <<>>
    /\ error' = "none"

\* ---------------------------------------------------------------- setup / reset
\* Model.setup_caches: both stacks allocate fresh caches, both masks are built
setup_caches ==
    /\ Begin("setup_caches")
    /\ caches_enabled' = TRUE
    /\ backbone_cache' = 0
    /\ decoder_cache' = 0
    /\ backbone_causal_mask' = create_causal_mask(MaxSeqLen)
    /\ decoder_causal_mask' = create_causal_mask(audio_num_codebooks)
    /\ ReturnNone("none")
    /\ UNCHANGED <<config, fusion>>

\* Model.reset_caches: backbone.reset_caches(), then decoder.reset_caches()
ResetAndDisable ==
    /\ Begin("reset_caches")
    /\ caches_enabled' = FALSE
    /\ backbone_cache' = 0
    /\ decoder_cache' = 0
    /\ ReturnNone("none")
    /\ UNCHANGED <<config, backbone_causal_mask, decoder_causal_mask, fusion>>

reset_caches ==
    /\ Begin("reset_caches")
    /\ IF caches_enabled
         THEN /\ backbone_cache' = 0
              /\ decoder_cache' = 0
              /\ ReturnNone("none")
         ELSE /\ Raise(CachesNotSetup)
              /\ UNCHANGED caches
    /\ UNCHANGED <<config, stacks, fusion>>

\* ---------------------------------------------------------------- generate_frame
\* lines 208-212: the precondition, then the backbone mask indexed at input_pos
UncheckedPrecondition(enabled, mask, pos) ==
    IF ~IndexInRange(mask, pos) THEN PosOutOfRange ELSE "ok"

PreconditionError(enabled, mask, pos) ==
    IF ~enabled THEN NotEnabled
    ELSE IF ~IndexInRange(mask, pos) THEN PosOutOfRange
    ELSE "ok"

generate_frame_enter ==
    /\ Begin("generate_frame")
    /\ \E pos \in PosSeqs :
         LET e == PreconditionError(caches_enabled, backbone_causal_mask, pos) IN
         IF e # "ok"
           THEN Raise(e)
           ELSE /\ Goto("gf_embed")
                /\ input_pos' = pos
                /\ curr_backbone_mask' = index_causal_mask(backbone_causal_mask, pos)
                /\ UNCHANGED <<batch_size, topk, temperature, curr_sample,
                               curr_pos, i, num_frames, curr_tokens_dims>>
    /\ UNCHANGED <<config, stacks, caches, fusion>>

\* lines 215-219 (and 279-283): _embed_tokens, the mask product and the sum
\* over the slots, for a tensor of rank `rank` whose frames are `frame` with
\* mask `mask`: "ok" or the exception raised
fusion_error(rank, frame, mask, N) ==
    IF embed_tokens_error([d \in 1..rank |-> Len(frame)], frame, N) # "ok"
      THEN embed_tokens_error([d \in 1..rank |-> Len(frame)], frame, N)
    ELSE IF ~mask_mul_ok(mask, N) THEN ShapeMismatch
    ELSE "ok"

\* the outcomes of the fusion over the frames and masks a caller can pass
FusionErrors ==
    [N \in 1..MaxCodebooks, k \in SlotCounts |->
        {fusion_error(3, frame, mask, N) :
            frame \in [1..k -> TokenValues], mask \in [1..k -> BOOLEAN]}]

generate_frame_embed ==
    /\ pc = "gf_embed"
    /\ \E k \in SlotCounts :
       \E e \in FusionErrors[audio_num_codebooks, k] :
         IF e # "ok"
           THEN Raise(e)
           ELSE /\ Goto("gf_backbone")
                /\ UNCHANGED <<batch_size, input_pos, curr_backbone_mask, topk,
                               temperature, curr_sample, curr_pos, i, num_frames,
                               curr_tokens_dims>>
    /\ UNCHANGED <<config, stacks, caches, fusion, op, c0_sample, batch_samples,
                   counters>>

\* a stack's forward on the positions pos: "ok" or the exception raised. It
\* raises when the stack fails or when its KV cache, set up for max_seq_len
\* positions, has no room for the new ones.
stack_forward_error(stack_ok, cache, pos, max_seq_len) ==
    IF ~stack_ok THEN StackFailure
    ELSE IF cache + Len(pos) > max_seq_len THEN CacheFull
    ELSE "ok"

\* a successful forward appends the key/value state of the stepped positions;
\* a cache is modelled by the number of positions it holds
ResetThenAppend(cache, pos) == Len(pos)

cache_append(cache, pos) == cache + Len(pos)

\* lines 244 and 178: curr_pos[:, -1:] + 1, the position after the last one
StayAtLastPos(pos) == <<Last(pos)>>

ShiftAllPos(pos) == [q \in 1..Len(pos) |-> pos[q] + 1]

next_pos(pos) == <<Last(pos) + 1>>

\* line 229: curr_sample starts as a copy of the codebook-0 sample
NoSeed(sample) == [r \in DOMAIN sample |-> <<>>]

clone_sample(sample) == [r \in DOMAIN sample |-> <<sample[r]>>]

\* line 243: cat([curr_sample, ci_sample], dim=1)
PrependSample(curr, sample) == [r \in DOMAIN curr |-> <<sample[r]>> \o curr[r]]

cat_sample(curr, sample) == [r \in DOMAIN curr |-> Append(curr[r], sample[r])]

\* lines 220-230: backbone forward, codebook-0 head, codebook-0 sample, the
\* 2-step decoder seed with local positions [0, 1]
generate_frame_backbone ==
    /\ pc = "gf_backbone"
    /\ backbone_calls' = backbone_calls + 1
    /\ \E stack_ok \in BOOLEAN :
         IF stack_forward_error(stack_ok, backbone_cache, input_pos, MaxSeqLen) # "ok"
           THEN /\ Raise(stack_forward_error(stack_ok, backbone_cache, input_pos,
                                            MaxSeqLen))
                /\ c0_sample' = <<>>
                /\ UNCHANGED backbone_cache
           ELSE /\ backbone_cache' = cache_append(backbone_cache, input_pos)
                /\ \E b \in 1..MaxBatch, k \in TopkChoices, temp \in TemperatureChoices :
                     IF ~topk_ok(k)
                       THEN /\ Raise(topk_error(k))
                            /\ c0_sample' = <<>>
                       ELSE \E sample \in SampleSets[b, k, temp] :
                            IF embed_audio_error(0, sample, audio_num_codebooks) # "ok"
                              THEN /\ Raise(embed_audio_error(0, sample,
                                                             audio_num_codebooks))
                                   /\ c0_sample' = <<>>
                              ELSE
                                /\ Goto("gf_reset")
                                /\ batch_size' = b
                                /\ c0_sample' = sample
                                /\ curr_sample' = clone_sample(sample)
                                /\ curr_pos' = <<0, 1>>
                                /\ topk' = k
                                /\ temperature' = temp
                                /\ input_pos' = <<>>
                                /\ curr_backbone_mask' = <<>>
                                /\ UNCHANGED <<i, num_frames, curr_tokens_dims>>
    /\ UNCHANGED <<config, stacks, decoder_cache, fusion, op, batch_samples,
                   decoder_calls, decoder_resets>>

\* decoder.reset_caches()
KeepDecoderCache(cache) == cache

reset_decoder(cache) == 0

\* line 233: the decoder cache is reset, the loop starts at i = 1
generate_frame_reset ==
    /\ pc = "gf_reset"
    /\ decoder_cache' = reset_decoder(decoder_cache)
    /\ decoder_resets' = decoder_resets + 1
    /\ i' = 1
    /\ Goto("gf_loop")
    /\ UNCHANGED <<config, stacks, backbone_cache, fusion, op, batch_size,
                   input_pos, curr_backbone_mask, topk, temperature,
                   c0_sample, curr_sample, curr_pos, num_frames,
                   curr_tokens_dims, batch_samples, backbone_calls, decoder_calls>>

\* lines 234-244: one iteration of the codebook loop
generate_frame_decoder ==
    /\ pc = "gf_loop"
    /\ i < audio_num_codebooks
    /\ IF ~IndexInRange(decoder_causal_mask, curr_pos)
         THEN /\ Raise(PosOutOfRange)
              /\ c0_sample' = <<>>
              /\ UNCHANGED <<decoder_cache, decoder_calls>>
         ELSE
           /\ decoder_calls' = decoder_calls + 1
           /\ \E stack_ok \in BOOLEAN :
                IF stack_forward_error(stack_ok, decoder_cache, curr_pos,
                                       audio_num_codebooks) # "ok"
                  THEN /\ Raise(stack_forward_error(stack_ok, decoder_cache, curr_pos,
                                                   audio_num_codebooks))
                       /\ c0_sample' = <<>>
                       /\ UNCHANGED decoder_cache
                  ELSE /\ decoder_cache' = cache_append(decoder_cache, curr_pos)
                       /\ IF audio_head_error(i, audio_num_codebooks) # "ok"
                            THEN /\ Raise(audio_head_error(i, audio_num_codebooks))
                                 /\ c0_sample' = <<>>
                          ELSE IF ~topk_ok(topk)
                            THEN /\ Raise(topk_error(topk))
                                 /\ c0_sample' = <<>>
                            ELSE \E sample \in SampleSets[batch_size, topk, temperature] :
                                 IF embed_audio_error(i, sample, audio_num_codebooks) # "ok"
                                   THEN /\ Raise(embed_audio_error(i, sample,
                                                                  audio_num_codebooks))
                                        /\ c0_sample' = <<>>
                                   ELSE
                                     /\ Goto("gf_loop")
                                     /\ curr_sample' = cat_sample(curr_sample, sample)
                                     /\ curr_pos' = next_pos(curr_pos)
                                     /\ i' = i + 1
                                     /\ UNCHANGED <<batch_size, input_pos,
                                                    curr_backbone_mask, topk, temperature,
                                                    c0_sample, num_frames,
                                                    curr_tokens_dims>>
    /\ UNCHANGED <<config, stacks, backbone_cache, fusion, op, batch_samples,
                   backbone_calls, decoder_resets>>

\* line 246: return curr_sample
generate_frame_return ==
    /\ pc = "gf_loop"
    /\ i >= audio_num_codebooks
    /\ pc' = "idle"
    /\ returned' = "value"
    /\ result' = curr_sample
    /\ error' = "none"
    /\ NoLocals
    /\ UNCHANGED <<config, stacks, caches, fusion, op, c0_sample, batch_samples,
                   counters>>

\* ---------------------------------------------------------------- generate_frames_batch
\* lines 140-150: the loop is entered unless num_frames <= 0 (range() of a
\* negative number is empty). The clones of
\* tokens, tokens_mask and pos are drawn by the first iteration, which is the
\* first to read them.
EnterWithDecoderReset ==
    /\ Begin("generate_frames_batch")
    /\ \E nf \in (-1)..MaxFrames :
         /\ num_frames' = nf
         /\ i' = 0
         /\ Goto(IF 0 < nf THEN "gb_loop" ELSE "gb_return")
    /\ decoder_cache' = 0
    /\ UNCHANGED <<config, stacks, backbone_cache, fusion, batch_size, input_pos,
                   curr_backbone_mask, topk, temperature, curr_sample, curr_pos,
                   curr_tokens_dims>>

generate_frames_batch_enter ==
    /\ Begin("generate_frames_batch")
    /\ \E nf \in (-1)..MaxFrames :
         /\ num_frames' = nf
         /\ i' = 0
         /\ Goto(IF 0 < nf THEN "gb_loop" ELSE "gb_return")
    /\ UNCHANGED <<config, stacks, caches, fusion, batch_size, input_pos,
                   curr_backbone_mask, topk, temperature, curr_sample, curr_pos,
                   curr_tokens_dims>>

\* the outcomes of the fusion inside Model.forward (lines 279-283): for the
\* caller's rank-3 frames of any slot count in the first iteration, and for
\* the rank-2 rows built at lines 174-177 afterwards
forward_fusion_errors(dims, N) ==
    IF dims = <<>> THEN UNION {FusionErrors[N, k] : k \in SlotCounts}
    ELSE {fusion_error(Len(dims), frame, <<TRUE, FALSE>>, N) :
            frame \in [1..Last(dims) -> TokenValues]}

\* lines 154-165 for one row: the tokens torch.multinomial can return.
\* The temperature is applied only if > 0, top-k only if topk > 0.
batch_sample_row(row, k, temp) ==
    IF k > 0 THEN Kept(IF temp > 0 THEN Scale(row, temp) ELSE row, k)
    ELSE DOMAIN row

BatchSamples(b, rows, k, temp) ==
    {s \in [1..b -> 0..(AudioVocabSize - 1)] :
        \A r \in 1..b : s[r] \in batch_sample_row(rows[r], k, temp)}

\* the samples the loop can draw for some logits of the stack
BatchSampleSets ==
    [b \in 1..MaxBatch, k \in TopkChoices \ {AudioVocabSize + 1},
     temp \in TemperatureChoices |->
        UNION {BatchSamples(b, rows, k, temp) : rows \in [1..b -> LogitRows]}]

\* torch.all(sample == 0)
all_zero(sample) == \A r \in DOMAIN sample : sample[r] = 0

\* line 174: cat([sample, zeros(1, 1)], dim=1) needs equal sizes in dim 0
next_tokens_ok(b) == b = 1

\* the shape of the curr_tokens built at line 174
next_tokens_dims(b) == <<b, 2>>

\* lines 186-188: except Exception: the failure is printed, None returned
propagate(e) == Raise(e)

absorb(e) == ReturnNone(e)

\* lines 150-178: one iteration of the loop
generate_frames_batch_step ==
    /\ pc = "gb_loop"
    /\ \E pos \in IF i = 0 THEN PosSeqs ELSE {curr_pos} :
       LET pre == PreconditionError(caches_enabled, backbone_causal_mask, pos) IN
       IF pre # "ok"
         THEN /\ absorb(pre)
              /\ UNCHANGED <<backbone_cache, backbone_calls, batch_samples>>
       ELSE \E e \in forward_fusion_errors(curr_tokens_dims, audio_num_codebooks) :
         IF e # "ok"
           THEN /\ absorb(e)
                /\ UNCHANGED <<backbone_cache, backbone_calls, batch_samples>>
         ELSE
           /\ backbone_calls' = backbone_calls + 1
           /\ \E stack_ok \in BOOLEAN :
              IF stack_forward_error(stack_ok, backbone_cache, pos, MaxSeqLen) # "ok"
                THEN /\ absorb(stack_forward_error(stack_ok, backbone_cache, pos,
                                                  MaxSeqLen))
                     /\ UNCHANGED <<backbone_cache, batch_samples>>
                ELSE
                  /\ backbone_cache' = cache_append(backbone_cache, pos)
                  /\ \E k \in IF i = 0 THEN TopkChoices ELSE {topk},
                        temp \in IF i = 0 THEN TemperatureChoices ELSE {temperature},
                        b \in IF i = 0 THEN 1..MaxBatch ELSE {batch_size} :
                     IF k > AudioVocabSize
                       THEN /\ absorb(TopkFailure)
                            /\ UNCHANGED batch_samples
                       ELSE \E sample \in BatchSampleSets[b, k, temp] :
                            IF all_zero(sample)
                              THEN /\ Goto("gb_return")
                                   /\ batch_size' = b
                                   /\ input_pos' = pos
                                   /\ curr_pos' = pos
                                   /\ topk' = k
                                   /\ temperature' = temp
                                   /\ UNCHANGED <<batch_samples, curr_tokens_dims, i,
                                                  num_frames, curr_backbone_mask,
                                                  curr_sample>>
                            ELSE IF ~next_tokens_ok(b)
                              THEN /\ absorb(CatFailure)
                                   /\ batch_samples' = Append(batch_samples, sample)
                              ELSE /\ batch_samples' = Append(batch_samples, sample)
                                   /\ batch_size' = b
                                   /\ curr_tokens_dims' = next_tokens_dims(b)
                                   /\ input_pos' = pos
                                   /\ curr_pos' = next_pos(pos)
                                   /\ i' = i + 1
                                   /\ topk' = k
                                   /\ temperature' = temp
                                   /\ Goto(IF i + 1 < num_frames
                                             THEN "gb_loop" ELSE "gb_return")
                                   /\ UNCHANGED <<num_frames, curr_backbone_mask,
                                                  curr_sample>>
    /\ UNCHANGED <<config, stacks, decoder_cache, fusion, op, c0_sample,
                   decoder_calls, decoder_resets>>

\* torch.cat(batch_samples, dim=0): the rows of the samples, one after another
RECURSIVE cat_rows(_)
cat_rows(samples) ==
    IF samples = <<>> THEN <<>>
    ELSE [r \in 1..Len(samples[1]) |-> <<samples[1][r]>>] \o cat_rows(Tail(samples))

\* lines 180-184: None if nothing was accepted, else the accepted samples
ReturnEmptySequence ==
    /\ pc = "gb_return"
    /\ pc' = "idle"
    /\ returned' = "value"
    /\ result' = cat_rows(batch_samples)
    /\ error' = "none"
    /\ NoLocals
    /\ UNCHANGED <<config, stacks, caches, fusion, op, c0_sample, batch_samples,
                   counters>>

generate_frames_batch_return ==
    /\ pc = "gb_return"
    /\ pc' = "idle"
    /\ IF batch_samples = <<>>
         THEN /\ returned' = "None"
              /\ result' = <<>>
         ELSE /\ returned' = "value"
              /\ result' = cat_rows(batch_samples)
    /\ error' = "none"
    /\ NoLocals
    /\ UNCHANGED <<config, stacks, caches, fusion, op, c0_sample, batch_samples,
                   counters>>

\* ---------------------------------------------------------------- specification
Next ==
    \/ setup_caches
    \/ reset_caches
    \/ generate_frame_enter
    \/ generate_frame_embed
    \/ generate_frame_backbone
    \/ generate_frame_reset
    \/ generate_frame_decoder
    \/ generate_frame_return
    \/ generate_frames_batch_enter
    \/ generate_frames_batch_step
    \/ generate_frames_batch_return

Spec == Init /\ [][Next]_vars

\* ---------------------------------------------------------------- the fusion alone
\* lines 215-219 (and 279-283) applied once, on a freshly built model, to one
\* frame and its mask drawn from every frame and mask of 1..MaxCodebooks+1 slots
embed_and_fuse ==
    /\ pc = "idle"
    /\ op = "none"
    /\ op' = "embed_and_fuse"
    /\ \E k \in SlotCounts :
       \E frame \in [1..k -> TokenValues], mask \in [1..k -> BOOLEAN] :
         /\ tokens' = frame
         /\ tokens_mask' = mask
         /\ error' = IF fusion_error(3, frame, mask, audio_num_codebooks) = "ok"
                       THEN "none"
                       ELSE fusion_error(3, frame, mask, audio_num_codebooks)
         /\ h' = IF fusion_error(3, frame, mask, audio_num_codebooks) = "ok"
                   THEN fuse(frame, mask, audio_num_codebooks)
                   ELSE 0
    /\ UNCHANGED <<config, stacks, caches, pc, batch_size, input_pos,
                   curr_backbone_mask, logits, topk, temperature, c0_sample,
                   curr_sample, curr_pos, i, num_frames, curr_tokens_dims,
                   batch_samples, counters, returned, result>>

FusionNext == embed_and_fuse

FusionSpec == Init /\ [][FusionNext]_vars

\* ---------------------------------------------------------------- sample_topk alone
\* lines 73-82 applied once to the logits of 1..MaxBatch rows, drawn with
\* topk and temperature from every value a caller can pass
sample_topk_once ==
    /\ pc = "idle"
    /\ op = "none"
    /\ op' = "sample_topk"
    /\ \E b \in 1..MaxBatch, k \in TopkChoices, temp \in TemperatureChoices :
       \E rows \in [1..b -> LogitRows] :
         /\ logits' = rows
         /\ topk' = k
         /\ temperature' = temp
         /\ IF ~topk_ok(k)
              THEN /\ returned' = "raised"
                   /\ result' = <<>>
                   /\ error' = topk_error(k)
              ELSE \E sample \in Samples(b, rows, k, temp) :
                   /\ returned' = "value"
                   /\ result' = sample
                   /\ error' = "none"
    /\ UNCHANGED <<config, stacks, caches, pc, batch_size, input_pos,
                   curr_backbone_mask, tokens, tokens_mask, h, c0_sample,
                   curr_sample, curr_pos, i, num_frames, curr_tokens_dims,
                   batch_samples, counters>>

SampleNext == sample_topk_once

SampleSpec == Init /\ [][SampleNext]_vars

\* ---------------------------------------------------------------- claims
\* C1: a generate_frame call made while the backbone caches are not enabled
\* raises the "caches are not enabled" assertion at once: the call ends in
\* that step, with no backbone forward, no decoder forward and no decoder
\* reset counted, and with both KV caches as they were.
C1_PreconditionFailsFast ==
    [][(pc = "idle" /\ op' = "generate_frame" /\ ~caches_enabled)
         => /\ pc' = "idle"
            /\ returned' = "raised"
            /\ error' = NotEnabled
            /\ backbone_calls' = 0
            /\ decoder_calls' = 0
            /\ decoder_resets' = 0
            /\ UNCHANGED <<backbone_cache, decoder_cache>>]_vars

C1_Witness ==
    /\ op = "generate_frame"
    /\ ~caches_enabled
    /\ returned = "raised"
    /\ error = NotEnabled

\* C2: in every generate_frame call the decoder cache is reset exactly once,
\* before the first decoder forward: at the head of the codebook loop one
\* reset has been made, the cache is empty until the seed call, holds exactly
\* the 2 seed positions right after it, and one more per later call.
C2_DecoderResetPerFrame ==
    /\ (op = "generate_frame" /\ decoder_calls >= 1) => decoder_resets = 1
    /\ op = "generate_frame" => decoder_resets <= 1
    /\ pc = "gf_loop" =>
         /\ decoder_resets = 1
         /\ decoder_calls = i - 1
         /\ decoder_calls = 0 => decoder_cache = 0
         /\ decoder_calls = 1 => decoder_cache = 2
         /\ decoder_calls >= 1 => decoder_cache = decoder_calls + 1

C2_Witness ==
    /\ pc = "gf_loop"
    /\ audio_num_codebooks >= 2
    /\ decoder_calls = 1
    /\ decoder_cache = 2
    /\ backbone_cache >= 2

\* C3 (as claimed): a generate_frames_batch call that accepted samples and
\* met no failing stack, no full cache and no position beyond the backbone
\* mask returns exactly the accepted samples, in generation order.
C3_ReturnsAcceptedFrames ==
    (/\ op = "generate_frames_batch"
     /\ pc = "idle"
     /\ batch_samples # <<>>
     /\ Len(batch_samples[1]) = 1
     /\ error \notin {StackFailure, CacheFull, PosOutOfRange})
      => /\ returned = "value"
         /\ result = cat_rows(batch_samples)

\* C4: generate_frames_batch never raises: whenever a failure occurred in
\* the call, the call has ended and returned None, with no frames.
C4_BatchAbsorbsFailures ==
    op = "generate_frames_batch" =>
      /\ returned # "raised"
      /\ error # "none" => (pc = "idle" /\ returned = "None" /\ result = <<>>)

C4_Witness ==
    /\ op = "generate_frames_batch"
    /\ batch_samples # <<>>
    /\ error # "none"
    /\ returned = "None"

\* C5: generate_frame never absorbs a failure: whenever a failure occurred
\* in the call, the call has ended by raising it, and no value was returned.
C5_FramePropagatesFailures ==
    op = "generate_frame" =>
      /\ returned # "None"
      /\ error # "none" => (pc = "idle" /\ returned = "raised" /\ result = <<>>)
      /\ returned = "value" => error = "none"

C5_Witness ==
    /\ op = "generate_frame"
    /\ decoder_calls >= 1
    /\ returned = "raised"
    /\ error = StackFailure

\* C6: with audio_num_codebooks = 1 no decoder forward is made during a
\* generate_frame call and the value returned is the codebook-0 sample, one
\* column per row.
C6_SingleCodebook ==
    (op = "generate_frame" /\ audio_num_codebooks = 1) =>
      /\ decoder_calls = 0
      /\ returned = "value" =>
           /\ DOMAIN result = DOMAIN c0_sample
           /\ \A r \in DOMAIN result : result[r] = <<c0_sample[r]>>

C6_Witness ==
    /\ op = "generate_frame"
    /\ audio_num_codebooks = 1
    /\ returned = "value"
    /\ Len(result) = MaxBatch

\* the failures a caller's arguments can cause
ArgumentErrors ==
    {PosOutOfRange, TokenOutOfRange, ShapeMismatch, TopkFailure, EmptyTopk}

\* C7: with the caches set up, a generate_frame call returns for every batch
\* row exactly audio_num_codebooks tokens of [0, audio_vocab_size), column 0
\* the codebook-0 sample and the token of loop index i at column i; it raises
\* only for an invalid argument or a failing stack forward, and once the
\* codebook-0 sample is drawn only for a failing decoder forward.
C7_FrameShapeAndRange ==
    op = "generate_frame" =>
      /\ pc = "gf_loop" =>
           \A r \in DOMAIN curr_sample :
              Len(curr_sample[r]) = i /\ curr_sample[r][1] = c0_sample[r]
      /\ returned = "value" =>
           /\ caches_enabled
           /\ Len(result) >= 1
           /\ DOMAIN result = DOMAIN c0_sample
           /\ \A r \in DOMAIN result :
                /\ Len(result[r]) = audio_num_codebooks
                /\ result[r][1] = c0_sample[r]
                /\ \A c \in 1..Len(result[r]) :
                     result[r][c] \in 0..(AudioVocabSize - 1)
      /\ (returned = "raised" /\ caches_enabled) =>
           error \in ArgumentErrors \cup {StackFailure, CacheFull}
      /\ (returned = "raised" /\ decoder_resets = 1) => error = StackFailure

C7_Witness ==
    /\ op = "generate_frame"
    /\ returned = "value"
    /\ audio_num_codebooks = MaxCodebooks
    /\ backbone_cache >= 2
    /\ \E r \in DOMAIN result : result[r][1] # result[r][2]

\* what _create_causal_mask(n) has to be: n rows of n entries, entry (r, c)
\* true iff c <= r, so that the row of position r-1 has r true entries
IsCausalMask(mask, n) ==
    /\ Len(mask) = n
    /\ \A r \in 1..n :
         /\ Len(mask[r]) = n
         /\ \A c \in 1..n : mask[r][c] <=> c <= r
         /\ Cardinality({c \in 1..n : mask[r][c]}) = r

\* C8: the masks built by setup_caches, of sizes backbone.max_seq_len and
\* audio_num_codebooks, are square, entry (i, j) is true iff j <= i, and row
\* i has exactly i+1 true entries.
C8_CausalMaskLowerTriangular ==
    caches_enabled =>
      /\ IsCausalMask(backbone_causal_mask, MaxSeqLen)
      /\ IsCausalMask(decoder_causal_mask, audio_num_codebooks)

C8_Witness ==
    /\ caches_enabled
    /\ Len(backbone_causal_mask) = MaxSeqLen
    /\ Len(decoder_causal_mask) = MaxCodebooks

\* C9: the backbone mask indexed at input_pos has one row per query, the
\* row of query position p is row p of the full mask at full width, and
\* indexing at [0, 1, ..., seq_len-1] gives the mask back.
C9_IndexGathersRows ==
    pc = "gf_embed" =>
      /\ Len(curr_backbone_mask) = Len(input_pos)
      /\ \A q \in 1..Len(input_pos) :
           /\ curr_backbone_mask[q] = backbone_causal_mask[input_pos[q] + 1]
           /\ Len(curr_backbone_mask[q]) = Len(backbone_causal_mask)
      /\ input_pos = [q \in 1..Len(backbone_causal_mask) |-> q - 1]
           => curr_backbone_mask = backbone_causal_mask

C9_Witness ==
    /\ pc = "gf_embed"
    /\ input_pos = [q \in 1..Len(backbone_causal_mask) |-> q - 1]
    /\ curr_backbone_mask = backbone_causal_mask

\* C10: when the fusion succeeds, an all-false frame mask gives the fused
\* value 0 whatever the tokens, and replacing the token of a slot whose mask
\* is false by any other valid token leaves the fused value unchanged.
C10_MaskedSlotsContributeNothing ==
    (op = "embed_and_fuse" /\ error = "none") =>
      /\ (\A slot \in DOMAIN tokens_mask : ~tokens_mask[slot]) => h = 0
      /\ \A slot \in DOMAIN tokens, token \in TokenValues :
           LET other == [tokens EXCEPT ![slot] = token] IN
           (/\ ~tokens_mask[slot]
            /\ fusion_error(3, other, tokens_mask, audio_num_codebooks) = "ok")
             => fuse(other, tokens_mask, audio_num_codebooks) = h

C10_Witness ==
    /\ op = "embed_and_fuse"
    /\ error = "none"
    /\ audio_num_codebooks = MaxCodebooks
    /\ \A slot \in DOMAIN tokens_mask : ~tokens_mask[slot]
    /\ \E slot \in DOMAIN tokens : tokens[slot] # 0

\* C11: no step of a generate_frame or generate_frames_batch call shrinks the
\* backbone cache: a step leaves it as it was or, when it is a successful
\* backbone forward, adds exactly the positions stepped, so the positions of
\* earlier calls stay; the cache shrinks only in setup_caches or reset_caches,
\* and a reset_caches that succeeds empties both the backbone and the decoder
\* cache.
C11_BackboneCacheSessionScoped ==
    [][/\ op' \in {"generate_frame", "generate_frames_batch"} =>
            /\ backbone_cache' >= backbone_cache
            /\ pc \notin {"gf_backbone", "gb_loop"} => backbone_cache' = backbone_cache
            /\ (pc = "gf_backbone" /\ pc' = "gf_reset") =>
                  backbone_cache' = backbone_cache + Len(input_pos)
            /\ (pc = "gb_loop" /\ pc' # "idle") =>
                  backbone_cache' = backbone_cache + Len(input_pos')
       /\ backbone_cache' < backbone_cache => op' \in {"setup_caches", "reset_caches"}
       /\ (op' = "reset_caches" /\ returned' = "None") =>
            (backbone_cache' = 0 /\ decoder_cache' = 0)]_vars

\* the positions stepped by the running generate_frames_batch call are strictly
\* increasing and end at curr_pos - 1, so they are at most curr_pos many: a
\* larger backbone cache holds positions of earlier calls
C11_Witness ==
    /\ op = "generate_frames_batch"
    /\ pc = "gb_loop"
    /\ i = 1
    /\ backbone_cache > curr_pos[1]

\* C12: no step of a generate_frames_batch call, whatever its outcome,
\* invokes the decoder, resets the decoder cache or appends to it.
C12_BatchLeavesDecoderAlone ==
    [][op' = "generate_frames_batch" =>
         /\ decoder_cache' = decoder_cache
         /\ decoder_calls' = 0
         /\ decoder_resets' = 0]_vars

C12_Witness ==
    /\ op = "generate_frames_batch"
    /\ returned = "value"
    /\ decoder_cache >= 2

\* C13 (as claimed): the curr_tokens that generate_frames_batch hands to
\* forward after an accepted sample is a token frame: a rank-3 tensor
\* (batch x step x slots) with audio_num_codebooks + 1 slots.
C13_NextInputIsTokenFrame ==
    (op = "generate_frames_batch" /\ pc = "gb_loop" /\ i > 0) =>
      /\ Len(curr_tokens_dims) = 3
      /\ Last(curr_tokens_dims) = audio_num_codebooks + 1

\* C14 (as claimed): a call samples only under valid sampling arguments:
\* whenever a sample has been drawn in the running generate_frame or
\* generate_frames_batch call, temperature > 0 and 1 <= topk <= vocabulary
\* size; a call with any other temperature or topk ends without sampling.
C14_EdgeCasesRejected ==
    (\/ pc \in {"gf_reset", "gf_loop"}
     \/ (pc \in {"gb_loop", "gb_return"} /\ batch_size > 0)) =>
      /\ temperature > 0
      /\ topk >= 1
      /\ topk <= AudioVocabSize

\* C15: in a generate_frame call with audio_num_codebooks = N >= 2, the
\* decoder forward of loop index 1 gets the positions [0, 1] and that of each
\* later index i the single position i, every position used to index the
\* decoder mask is in 0..N-1, the decoder cache holds 0 positions before the
\* seed call and i after the call of index i - 1, never more than N, and a
\* call that returns a frame made exactly N - 1 decoder forwards that left N
\* positions in the decoder cache.
C15_DecoderStepsAndPositions ==
    (op = "generate_frame" /\ audio_num_codebooks >= 2) =>
      /\ decoder_calls <= audio_num_codebooks - 1
      /\ pc = "gf_loop" =>
           /\ decoder_calls = i - 1
           /\ i = 1 => curr_pos = <<0, 1>>
           /\ i >= 2 => curr_pos = <<i>>
           /\ i < audio_num_codebooks =>
                \A q \in 1..Len(curr_pos) : curr_pos[q] \in 0..(audio_num_codebooks - 1)
           /\ decoder_cache = (IF i = 1 THEN 0 ELSE i)
           /\ decoder_cache <= audio_num_codebooks
      /\ returned = "value" =>
           /\ decoder_calls = audio_num_codebooks - 1
           /\ decoder_cache = audio_num_codebooks

C15_Witness ==
    /\ op = "generate_frame"
    /\ returned = "value"
    /\ audio_num_codebooks = MaxCodebooks
    /\ decoder_calls = MaxCodebooks - 1
    /\ decoder_cache = MaxCodebooks

CodebookPartition(c) == (c * AudioVocabSize)..((c + 1) * AudioVocabSize - 1)

\* for every model size N, codebook c < N and token of [0, audio_vocab_size),
\* _embed_audio(c, token) looks up an index of codebook c's partition, inside
\* the table, and so does _embed_tokens for every audio slot of a frame of
\* N + 1 slots whose audio tokens are in [0, audio_vocab_size)
EmbedIndexPartitioned ==
    \A N \in 1..MaxCodebooks :
      /\ \A c \in 0..(N - 1), token \in 0..(AudioVocabSize - 1) :
           /\ embed_audio_index(c, token) \in CodebookPartition(c)
           /\ embed_audio_index(c, token) \in 0..(AudioTableSize(N) - 1)
           /\ embed_audio_error(c, <<token>>, N) = "ok"
      /\ \A frame \in [1..(N + 1) -> 0..(AudioVocabSize - 1)], c \in 0..(N - 1) :
           embed_audio_index(c, AudioSlot(frame, c)) \in CodebookPartition(c)

\* C17: in generate_frame the loop of index i reads weight slice i - 1 of
\* audio_head, an index of 0..N-2, and the token sampled for codebook c (column
\* c of the frame so far) was embedded at token + c * audio_vocab_size, inside
\* codebook c's partition of the table of audio_vocab_size * N entries; the
\* same holds of every in-range audio token that _embed_tokens embeds; once
\* the backbone has run, no lookup of the call fails.
C17_CodebookIndexing ==
    /\ EmbedIndexPartitioned
    /\ (op = "generate_frame" /\ pc = "gf_loop") =>
         /\ i < audio_num_codebooks =>
              /\ audio_head_index(i) \in 0..(audio_num_codebooks - 2)
              /\ audio_head_error(i, audio_num_codebooks) = "ok"
         /\ \A r \in DOMAIN curr_sample : \A c \in 1..Len(curr_sample[r]) :
              /\ embed_audio_index(c - 1, curr_sample[r][c]) \in CodebookPartition(c - 1)
              /\ embed_audio_index(c - 1, curr_sample[r][c])
                   \in 0..(AudioTableSize(audio_num_codebooks) - 1)
    /\ (op = "generate_frame" /\ backbone_calls >= 1) =>
         error \notin {TokenOutOfRange, HeadIndexError}

C17_Witness ==
    /\ op = "generate_frame"
    /\ pc = "gf_loop"
    /\ audio_num_codebooks = MaxCodebooks
    /\ i = MaxCodebooks
    /\ \E r \in DOMAIN curr_sample :
         embed_audio_index(i - 1, curr_sample[r][i]) = AudioTableSize(MaxCodebooks) - 1

\* the indices of a row with fewer than k logits strictly above theirs: those
\* whose logit is at least the k-th largest of the row
AtLeastKthLargest(row, k) ==
    {x \in DOMAIN row : Cardinality({y \in DOMAIN row : row[y] > row[x]}) < k}

\* C18: sample_topk with temperature > 0 and 1 <= topk <= vocabulary size
\* returns for every row one index whose logit is at least the row's topk-th
\* largest, every such index (ties included) is one it can return, and with
\* topk = 1 and a unique maximum the index returned is the argmax.
C18_SampleTopk ==
    (op = "sample_topk" /\ temperature > 0 /\ topk >= 1 /\ topk <= AudioVocabSize) =>
      /\ returned = "value"
      /\ DOMAIN result = DOMAIN logits
      /\ \A r \in DOMAIN logits :
           /\ result[r] \in AtLeastKthLargest(logits[r], topk)
           /\ sample_topk(logits[r], topk, temperature) = AtLeastKthLargest(logits[r], topk)
           /\ (topk = 1 /\ Cardinality(AtLeastKthLargest(logits[r], 1)) = 1) =>
                \A x \in DOMAIN logits[r] : logits[r][x] <= logits[r][result[r]]

C18_Witness ==
    /\ op = "sample_topk"
    /\ temperature > 0
    /\ topk = 1
    /\ returned = "value"
    /\ \A r \in DOMAIN logits :
         /\ Cardinality(AtLeastKthLargest(logits[r], 1)) = 1
         /\ result[r] # 0
         /\ \A x \in DOMAIN logits[r] : logits[r][x] <= logits[r][result[r]]

\* C19: only setup_caches changes the enabled state or either causal mask:
\* every step of any other call leaves all three as they were; a setup_caches
\* step leaves the model ready with a backbone mask of backbone.max_seq_len
\* rows and a decoder mask of audio_num_codebooks rows; a reset_caches on a
\* ready model empties both caches and leaves it ready.
C19_ReadyOnlyThroughSetup ==
    [][/\ op' # "setup_caches" =>
            UNCHANGED <<caches_enabled, backbone_causal_mask, decoder_causal_mask>>
       /\ (~caches_enabled /\ caches_enabled') => op' = "setup_caches"
       /\ op' = "setup_caches" =>
            /\ caches_enabled'
            /\ Len(backbone_causal_mask') = MaxSeqLen
            /\ Len(decoder_causal_mask') = audio_num_codebooks
       /\ (op' = "reset_caches" /\ caches_enabled) =>
            /\ caches_enabled'
            /\ returned' = "None"
            /\ backbone_cache' = 0
            /\ decoder_cache' = 0]_vars

C19_Witness ==
    /\ op = "reset_caches"
    /\ returned = "None"
    /\ caches_enabled
    /\ Len(backbone_causal_mask) = MaxSeqLen
    /\ Len(decoder_causal_mask) = MaxCodebooks

\* C20: a generate_frames_batch call that has ended with no accepted sample
\* returned None, with or without a failure absorbed; a call that returned a
\* value accepted at least one sample and its value has at least one row.
C20_NoneWhenNoFrames ==
    (op = "generate_frames_batch" /\ pc = "idle") =>
      /\ returned \in {"None", "value"}
      /\ batch_samples = <<>> => returned = "None"
      /\ returned = "None" => result = <<>>
      /\ returned = "value" =>
           /\ batch_samples # <<>>
           /\ Len(result) >= 1
           /\ error = "none"

\* the first sample was the all-zero sentinel: None without any failure
C20_Witness ==
    /\ op = "generate_frames_batch"
    /\ pc = "idle"
    /\ returned = "None"
    /\ error = "none"
    /\ backbone_calls = 1
    /\ batch_samples = <<>>

====
